---- MODULE Spec2Model ----
(***************************************************************************)
(* Spring-mass simulator (masa-resorte).  Model of the trajectory          *)
(* generator simulateSystem, of generateEquations and of the component     *)
(* that calls them (frontend/src/components/points.js), of the component   *)
(* that asks a server for the trajectory (frontend/src/App.js) and of the  *)
(* animation SpringMassSimulation (unnamed/part_000).                      *)
(*                                                                         *)
(* JavaScript numbers are modelled as fixed-point integers: the integer n  *)
(* stands for the number n / Scale.  Every arithmetic operation rounds to  *)
(* the nearest representable value, as IEEE-754 does at its own precision. *)
(***************************************************************************)
EXTENDS Integers, Sequences, FiniteSets, TLC

----------------------------------------------------------------------------
(* Bounds of the model *)

\* parameters range over whole numbers 1..Max* (and 0..MaxAmortiguamiento)
MaxMasa == 2
MaxResorte == 4
MaxAmortiguamiento == 5
\* the window stop_time - step_time ranges over 5ms, 10ms, ..., MaxVentana*5ms
MaxVentana == 5
\* cap on the ghost counter of simulateSystem invocations
MaxInvocaciones == 2
\* the component is explored for at most this many edits of its form
MaxEdiciones == 3
\* and for windows of at most this many steps
MaxPasos == 3
\* calls of checkBackendHealth in flight at the same time
MaxSalud == 2

----------------------------------------------------------------------------
(* Fixed-point numbers *)

Scale == 1000

Abs(x) == IF x < 0 THEN -x ELSE x

\* a / b rounded to the nearest integer, ties away from zero (b # 0)
RoundDiv(a, b) ==
  LET q == (Abs(a) + (Abs(b) \div 2)) \div Abs(b)
  IN  IF (a < 0) = (b < 0) THEN q ELSE -q

Mul(a, b) == RoundDiv(a * b, Scale)
Div(a, b) == RoundDiv(a * Scale, b)

\* Math.floor of a fixed-point number, as a plain integer
MathFloor(x) == x \div Scale

RECURSIVE ISqrtSearch(_, _, _)
\* greatest r in lo..hi with r*r <= n   (lo*lo <= n < (hi+1)*(hi+1))
ISqrtSearch(n, lo, hi) ==
  IF lo = hi THEN lo
  ELSE LET mid == (lo + hi + 1) \div 2
       IN  IF mid * mid <= n THEN ISqrtSearch(n, mid, hi)
           ELSE ISqrtSearch(n, lo, mid - 1)

\* Math.sqrt for x >= 0, rounded to nearest
MathSqrt(x) ==
  LET n == x * Scale
      r == ISqrtSearch(n, 0, 40000)
  IN  IF n - r * r > r THEN r + 1 ELSE r

Pi == 3142
TwoPi == 6283

RECURSIVE AlternatingSeries(_, _, _, _)
\* term - term*x2/(n(n+1)) + term*x2^2/(n(n+1)(n+2)(n+3)) - ...
AlternatingSeries(term, x2, n, last) ==
  IF n > last \/ term = 0 THEN term
  ELSE term + AlternatingSeries(-RoundDiv(Mul(term, x2), n * (n + 1)),
                                x2, n + 2, last)

\* x reduced to (-Pi, Pi]
ReduceAngle(x) ==
  LET r == x % TwoPi
  IN  IF r > Pi THEN r - TwoPi ELSE r

CosSmall(x) == AlternatingSeries(Scale, Mul(x, x), 1, 9)
SinSmall(x) == AlternatingSeries(x, Mul(x, x), 2, 10)

MathCos(x) ==
  LET r == Abs(ReduceAngle(x))
  IN  IF 2 * r > Pi THEN -CosSmall(Pi - r) ELSE CosSmall(r)

MathSin(x) ==
  LET r == ReduceAngle(x)
      a == Abs(r)
      s == IF 2 * a > Pi THEN SinSmall(Pi - a) ELSE SinSmall(a)
  IN  IF r < 0 THEN -s ELSE s

EulerE == 2718
EulerInv == 368

RECURSIVE ExpSeries(_, _, _)
\* term + term*f/n + term*f^2/(n(n+1)) + ...
ExpSeries(term, f, n) ==
  IF term = 0 THEN 0
  ELSE term + ExpSeries(RoundDiv(Mul(term, f), n), f, n + 1)

RECURSIVE ScaleByE(_, _)
ScaleByE(v, q) ==
  IF q = 0 THEN v
  ELSE IF q > 0 THEN ScaleByE(Mul(v, EulerE), q - 1)
  ELSE ScaleByE(Mul(v, EulerInv), q + 1)

\* Math.exp: e^q * e^f with q the integer part and 0 <= f < 1
MathExp(x) == ScaleByE(ExpSeries(Scale, x % Scale, 1), x \div Scale)

----------------------------------------------------------------------------
(* State *)

VARIABLES
  parametros,         \* useState: masa, constante_resorte, constante_amortiguamiento, fuerza, tipo_ecuacion
  controlSimulacion,  \* useState: step_time, stop_time, valor_inicial, velocidad_inicial
  escalaGrafico,      \* useState: y_min, y_max, auto_escala
  resultados,         \* useState: the last stored trajectory, or Null
  loading,            \* useState
  error,              \* useState
  pendiente,          \* the call of ejecutarSimulacion suspended at its await, or Null
  ramas,              \* ghost: the arm of the if-chain taken for each sample of the last simulateSystem call
  invocaciones,       \* ghost: number of calls of simulateSystem
  ediciones,          \* ghost: number of edits of the form
  montado,            \* App.js: the mount effect has run
  backendStatus,      \* App.js useState: 'checking', 'online' or 'offline'
  saludEnVuelo,       \* App.js: calls of checkBackendHealth suspended at their await
  isAnimationPlaying,     \* useState
  currentAnimationFrame,  \* useState
  currentFrame,       \* useState of SpringMassSimulation
  animationSpeed,     \* useState of SpringMassSimulation
  intervalos,         \* the intervals set by the animation effect and not cleared, each with the closure of its animate
  deps,               \* the dependencies the animation effect last ran with, or Null
  equations,          \* App.js useState: the equations last stored by updateEquations, or Null
  ecuacionesEnVuelo,  \* App.js: the calls of updateEquations suspended at their await, each with the parametros and controlSimulacion of its closure
  reiniciado          \* ghost: 'Reiniciar' of App.js was clicked and no simulation has been started since

\* the state of App.js and of SpringMassSimulation that points.js alone does not touch
varsApp == <<montado, backendStatus, saludEnVuelo, isAnimationPlaying,
             currentAnimationFrame, currentFrame, animationSpeed, intervalos, deps,
             equations, ecuacionesEnVuelo, reiniciado>>

vars == <<parametros, controlSimulacion, escalaGrafico, resultados, loading,
          error, pendiente, ramas, invocaciones, ediciones, varsApp>>

\* null (a record, so that it can be compared with the records the variables hold)
Null == [null |-> TRUE]

\* Math.max() and Math.min() of no arguments
NegInfinity == "-Infinity"
PosInfinity == "Infinity"

----------------------------------------------------------------------------
(* Strings of tipo_ecuacion and String.prototype.includes *)

tiposEcuacion ==
  {"amortiguado", "amortiguado_forzado", "no_amortiguado", "no_amortiguado_forzado"}

\* new Error('No se puede conectar con el servidor. ...') of SimulatorAPI.simulate
MensajeSinConexion ==
  "No se puede conectar con el servidor. Asegúrate de que el backend esté ejecutándose."

\* the words of a string tested with includes: those of a tipo_ecuacion, which are
\* joined by "_", and those of the message of an error
Palabras(s) ==
  CASE s = "amortiguado" -> <<"amortiguado">>
    [] s = "amortiguado_forzado" -> <<"amortiguado", "forzado">>
    [] s = "no_amortiguado" -> <<"no", "amortiguado">>
    [] s = "no_amortiguado_forzado" -> <<"no", "amortiguado", "forzado">>
    [] s = "forzado" -> <<"forzado">>
    [] s = "fetch" -> <<"fetch">>
    [] s = "conectar" -> <<"conectar">>
    [] s = "Failed to fetch" -> <<"Failed", "to", "fetch">>
    [] s = "Load failed" -> <<"Load", "failed">>
    [] s = MensajeSinConexion ->
         <<"No", "se", "puede", "conectar", "con", "el", "servidor.", "Asegúrate", "de",
           "que", "el", "backend", "esté", "ejecutándose.">>
    [] s = "Error en la simulación" -> <<"Error", "en", "la", "simulación">>
    [] s = "No se pudo conectar con el motor de cálculo" ->
         <<"No", "se", "pudo", "conectar", "con", "el", "motor", "de", "cálculo">>
    [] OTHER -> <<s>>

\* s.includes(sub): sub occurs in s as a contiguous run
Includes(s, sub) ==
  LET ws == Palabras(s)
      wsub == Palabras(sub)
  IN  \E i \in 0..(Len(ws) - Len(wsub)) :
        \A j \in 1..Len(wsub) : ws[i + j] = wsub[j]

----------------------------------------------------------------------------
(* simulateSystem *)

dt == Scale \div 100

\* const steps = Math.floor(totalTime / dt)
Steps(cs) == MathFloor(Div(cs.stop_time - cs.step_time, dt))

\* mutant: the loop written  for (let i = 0; i < steps; i++)
LoopIndicesExclusivo(cs) == 0..(Steps(cs) - 1)

\* the indices visited by  for (let i = 0; i <= steps; i++)
LoopIndices(cs) == 0..Steps(cs)

\* mutant: t counted from zero instead of from step_time
TimeAtDesdeCero(cs, i) == i * dt

\* const t = controlSimulacion.step_time + i * dt
TimeAt(cs, i) == cs.step_time + i * dt

Omega(p) == MathSqrt(Div(p.constante_resorte, p.masa))

\* the divisor of zeta:  2 * Math.sqrt(masa * constante_resorte)
DivisorDeZeta(p) == Mul(2 * Scale, MathSqrt(Mul(p.masa, p.constante_resorte)))

Zeta(p) == Div(p.constante_amortiguamiento, DivisorDeZeta(p))

\* mutant: the first arm taken for every kind that contains 'no_amortiguado'
EsArmonicoSimpleSinForzado(p) == Includes(p.tipo_ecuacion, "no_amortiguado")

\* mutant: 'unforced' read off the forcing expression instead of the kind
EsArmonicoSimplePorFuerza(p) ==
  Includes(p.tipo_ecuacion, "no_amortiguado") /\ p.fuerza = "0"

\* condition of the first arm of the if-chain
EsArmonicoSimple(p) ==
  Includes(p.tipo_ecuacion, "no_amortiguado") /\ ~Includes(p.tipo_ecuacion, "forzado")

\* mutant: the second arm taken up to and including zeta = 1
EsSubamortiguadoHastaUno(p) == Zeta(p) <= Scale

\* condition of the second arm
EsSubamortiguado(p) == Zeta(p) < Scale

\* the argument of Math.sqrt in the second arm:  1 - zeta * zeta
UnoMenosZetaCuadrado(p) == Scale - Mul(Zeta(p), Zeta(p))

\* const omegaD = omega * Math.sqrt(1 - zeta * zeta)
OmegaD(p) == Mul(Omega(p), MathSqrt(UnoMenosZetaCuadrado(p)))

\* mutant: the damping term left out of the equation of motion
EcuacionMovimientoSinAmortiguamiento(p, position, velocity) ==
  Mul(Div(-p.constante_resorte, p.masa), position)

\* acceleration from the equation of motion, used by both damped arms
EcuacionMovimiento(p, position, velocity) ==
  Mul(Div(-p.constante_resorte, p.masa), position)
    - Mul(Div(p.constante_amortiguamiento, p.masa), velocity)

\* mutant: the initial velocity scaled by omega in the velocity formula
ArmonicoSimpleVelocidadEscalada(p, cs, t) ==
  LET omega == Omega(p)
      y0 == cs.valor_inicial
      v0 == cs.velocidad_inicial
      c == MathCos(Mul(omega, t))
      s == MathSin(Mul(omega, t))
  IN  [t |-> t,
       position |-> Mul(y0, c) + Mul(Div(v0, omega), s),
       velocity |-> Mul(Mul(-y0, omega), s) + Mul(Mul(v0, omega), c),
       acceleration |-> Mul(Mul(Mul(-y0, omega), omega), c) - Mul(Mul(v0, omega), s),
       rama |-> "armonico_simple"]

\* first arm: simple harmonic motion
ArmonicoSimple(p, cs, t) ==
  LET omega == Omega(p)
      y0 == cs.valor_inicial
      v0 == cs.velocidad_inicial
      c == MathCos(Mul(omega, t))
      s == MathSin(Mul(omega, t))
  IN  [t |-> t,
       position |-> Mul(y0, c) + Mul(Div(v0, omega), s),
       velocity |-> Mul(Mul(-y0, omega), s) + Mul(v0, c),
       acceleration |-> Mul(Mul(Mul(-y0, omega), omega), c) - Mul(Mul(v0, omega), s),
       rama |-> "armonico_simple"]

\* the sample of a damped arm: position and velocity as computed by the arm,
\* acceleration from the equation of motion
PuntoAmortiguado(p, t, position, velocity, rama) ==
  [t |-> t,
   position |-> position,
   velocity |-> velocity,
   acceleration |-> EcuacionMovimiento(p, position, velocity),
   rama |-> rama]

\* second arm: underdamped
Subamortiguado(p, cs, t) ==
  LET omega == Omega(p)
      zeta == Zeta(p)
      omegaD == OmegaD(p)
      A == cs.valor_inicial
      B == Div(cs.velocidad_inicial + Mul(Mul(zeta, omega), A), omegaD)
      envelope == MathExp(Mul(Mul(-zeta, omega), t))
      cosine == MathCos(Mul(omegaD, t))
      sine == MathSin(Mul(omegaD, t))
  IN  PuntoAmortiguado(p, t,
        Mul(envelope, Mul(A, cosine) + Mul(B, sine)),
        Mul(envelope,
            Mul(Mul(Mul(-zeta, omega), A) + Mul(omegaD, B), cosine)
              + Mul(Mul(-omegaD, A) - Mul(Mul(zeta, omega), B), sine)),
        "subamortiguado")

\* third arm with the initial velocity entering the amplitude
CriticoSobreamortiguadoConV0(p, cs, t) ==
  LET omega == Omega(p)
      zeta == Zeta(p)
      y0 == cs.valor_inicial + Mul(cs.velocidad_inicial, t)
      envelope == MathExp(Mul(Mul(-zeta, omega), t))
  IN  PuntoAmortiguado(p, t,
        Mul(Mul(y0, envelope), MathCos(Mul(omega, t))),
        Mul(Mul(y0, envelope),
            Mul(Mul(-zeta, omega), MathCos(Mul(omega, t)))
              - Mul(omega, MathSin(Mul(omega, t))))
          + Mul(cs.velocidad_inicial, envelope),
        "critico_sobreamortiguado")

\* third arm: overdamped or critically damped (simplified)
CriticoSobreamortiguado(p, cs, t) ==
  LET omega == Omega(p)
      zeta == Zeta(p)
      y0 == cs.valor_inicial
      envelope == MathExp(Mul(Mul(-zeta, omega), t))
  IN  PuntoAmortiguado(p, t,
        Mul(Mul(y0, envelope), MathCos(Mul(omega, t))),
        Mul(Mul(y0, envelope),
            Mul(Mul(-zeta, omega), MathCos(Mul(omega, t)))
              - Mul(omega, MathSin(Mul(omega, t)))),
        "critico_sobreamortiguado")

\* the body of the loop for index i: t and the if / else if / else chain
Muestra(p, cs, i) ==
  IF EsArmonicoSimple(p) THEN ArmonicoSimple(p, cs, TimeAt(cs, i))
  ELSE IF EsSubamortiguado(p) THEN Subamortiguado(p, cs, TimeAt(cs, i))
  ELSE CriticoSobreamortiguado(p, cs, TimeAt(cs, i))

\* the samples pushed by the loop, in order
Muestras(p, cs) ==
  [n \in 1..Cardinality(LoopIndices(cs)) |-> Muestra(p, cs, n - 1)]

RECURSIVE MaxScan(_, _, _)
MaxScan(xs, i, best) ==
  IF i > Len(xs) THEN best
  ELSE MaxScan(xs, i + 1, IF xs[i] > best THEN xs[i] ELSE best)

RECURSIVE MinScan(_, _, _)
MinScan(xs, i, best) ==
  IF i > Len(xs) THEN best
  ELSE MinScan(xs, i + 1, IF xs[i] < best THEN xs[i] ELSE best)

\* mutant: the scan started from 0 instead of from the first element
MathMaxDesdeCero(xs) == IF Len(xs) = 0 THEN NegInfinity ELSE MaxScan(xs, 1, 0)

\* Math.max(...xs)
MathMax(xs) == IF Len(xs) = 0 THEN NegInfinity ELSE MaxScan(xs, 2, xs[1])
\* Math.min(...xs)
MathMin(xs) == IF Len(xs) = 0 THEN PosInfinity ELSE MinScan(xs, 2, xs[1])

\* Math.max(...xs) - Math.min(...xs);  -Infinity - Infinity is -Infinity
Amplitud(xs) == IF Len(xs) = 0 THEN NegInfinity ELSE MathMax(xs) - MathMin(xs)

\* mutant: the boundary zeta = 1 counted as underdamped
TipoAmortiguamientoInclusivo(p) ==
  IF Zeta(p) <= Scale THEN "subamortiguado"
  ELSE IF Zeta(p) = Scale THEN "crítico"
  ELSE "sobreamortiguado"

TipoAmortiguamiento(p) ==
  IF Zeta(p) < Scale THEN "subamortiguado"
  ELSE IF Zeta(p) = Scale THEN "crítico"
  ELSE "sobreamortiguado"

Estadisticas(positionPoints, velocityPoints, accelerationPoints) ==
  [posicion_maxima |-> MathMax(positionPoints),
   posicion_minima |-> MathMin(positionPoints),
   amplitud |-> Amplitud(positionPoints),
   velocidad_maxima |-> MathMax(velocityPoints),
   velocidad_minima |-> MathMin(velocityPoints),
   aceleracion_maxima |-> MathMax(accelerationPoints),
   aceleracion_minima |-> MathMin(accelerationPoints)]

\* the object returned by simulateSystem, from the samples ms pushed by its loop
Resultado(p, ms) ==
  [tiempo |-> [n \in 1..Len(ms) |-> ms[n].t],
   posicion |-> [n \in 1..Len(ms) |-> ms[n].position],
   velocidad |-> [n \in 1..Len(ms) |-> ms[n].velocity],
   aceleracion |-> [n \in 1..Len(ms) |-> ms[n].acceleration],
   parametros |->
     [masa |-> p.masa,
      constante_resorte |-> p.constante_resorte,
      constante_amortiguamiento |-> p.constante_amortiguamiento,
      fuerza |-> p.fuerza,
      tipo_ecuacion |-> p.tipo_ecuacion,
      frecuencia_natural |-> Omega(p),
      coeficiente_amortiguamiento |-> Zeta(p),
      tipo_amortiguamiento |-> TipoAmortiguamiento(p),
      beta |-> Div(p.constante_amortiguamiento, 2 * p.masa),
      omega_0 |-> Omega(p)],
   estadisticas |-> Estadisticas([n \in 1..Len(ms) |-> ms[n].position],
                                 [n \in 1..Len(ms) |-> ms[n].velocity],
                                 [n \in 1..Len(ms) |-> ms[n].acceleration])]

simulateSystem(p, cs) == Resultado(p, Muestras(p, cs))

\* ghost: the arms taken by the samples ms
RamasDe(ms) == [n \in 1..Len(ms) |-> ms[n].rama]

\* ghost: the arms taken by the loop of simulateSystem
Ramas(p, cs) == RamasDe(Muestras(p, cs))

----------------------------------------------------------------------------
(* generateEquations *)

\* x.toFixed(2): the number of hundredths nearest to x
ToFixed2(x) == RoundDiv(x, Scale \div 100)

\* fuerza || 'F(t)'
FuerzaMostrada(p) == IF p.fuerza = "" THEN "F(t)" ELSE p.fuerza

\* the switch on tipo_ecuacion: the coefficients written, whether the term in y'
\* is written, and the right-hand side
differential_eq(p) ==
  CASE p.tipo_ecuacion = "amortiguado" ->
         [m |-> p.masa, b |-> p.constante_amortiguamiento, k |-> p.constante_resorte,
          termino_en_b |-> TRUE, lado_derecho |-> "0"]
    [] p.tipo_ecuacion = "amortiguado_forzado" ->
         [m |-> p.masa, b |-> p.constante_amortiguamiento, k |-> p.constante_resorte,
          termino_en_b |-> TRUE, lado_derecho |-> FuerzaMostrada(p)]
    [] p.tipo_ecuacion = "no_amortiguado" ->
         [m |-> p.masa, b |-> 0, k |-> p.constante_resorte,
          termino_en_b |-> FALSE, lado_derecho |-> "0"]
    [] p.tipo_ecuacion = "no_amortiguado_forzado" ->
         [m |-> p.masa, b |-> 0, k |-> p.constante_resorte,
          termino_en_b |-> FALSE, lado_derecho |-> FuerzaMostrada(p)]
    [] OTHER ->
         [m |-> p.masa, b |-> p.constante_amortiguamiento, k |-> p.constante_resorte,
          termino_en_b |-> TRUE, lado_derecho |-> FuerzaMostrada(p)]

\* const omega_n = Math.sqrt(k / m)
omega_n(p) == MathSqrt(Div(p.constante_resorte, p.masa))

\* const zeta = b / (2 * Math.sqrt(m * k))
zeta_ecuaciones(p) ==
  Div(p.constante_amortiguamiento,
      Mul(2 * Scale, MathSqrt(Mul(p.masa, p.constante_resorte))))

\* mutant: the critical template chosen by  zeta >= 1
PlantillaCriticaDesdeUno(p) ==
  IF Includes(p.tipo_ecuacion, "no_amortiguado") /\ ~Includes(p.tipo_ecuacion, "forzado")
    THEN "armonico_simple"
  ELSE IF zeta_ecuaciones(p) < Scale THEN "subamortiguado"
  ELSE IF zeta_ecuaciones(p) >= Scale THEN "critico"
  ELSE "sobreamortiguado"

\* the if / else if chain that chooses the solution template
Plantilla(p) ==
  IF Includes(p.tipo_ecuacion, "no_amortiguado") /\ ~Includes(p.tipo_ecuacion, "forzado")
    THEN "armonico_simple"
  ELSE IF zeta_ecuaciones(p) < Scale THEN "subamortiguado"
  ELSE IF zeta_ecuaciones(p) = Scale THEN "critico"
  ELSE "sobreamortiguado"

\* const omega_d = omega_n * Math.sqrt(1 - zeta * zeta)
omega_d(p) ==
  Mul(omega_n(p), MathSqrt(Scale - Mul(zeta_ecuaciones(p), zeta_ecuaciones(p))))

\* the numbers interpolated into position_eq by each template, before toFixed:
\*   armonico_simple   y0 cos(omega t) + v0_sobre_omega sin(omega t)
\*   subamortiguado    e^(-decaimiento t) [A cos(omega_d t) + B sin(omega_d t)]
\*   critico           (y0 + pendiente t) e^(-omega t)
\*   sobreamortiguado  C_1 e^(r1 t) + C_2 e^(r2 t), C_1 and C_2 written as symbols
SolucionPosicion(p, cs) ==
  CASE Plantilla(p) = "armonico_simple" ->
         [plantilla |-> "armonico_simple",
          y0 |-> cs.valor_inicial,
          omega |-> omega_n(p),
          v0_sobre_omega |-> Div(cs.velocidad_inicial, omega_n(p))]
    [] Plantilla(p) = "subamortiguado" ->
         [plantilla |-> "subamortiguado",
          decaimiento |-> Mul(zeta_ecuaciones(p), omega_n(p)),
          A |-> cs.valor_inicial,
          omega_d |-> omega_d(p),
          B |-> Div(cs.velocidad_inicial
                      + Mul(Mul(zeta_ecuaciones(p), omega_n(p)), cs.valor_inicial),
                    omega_d(p))]
    [] Plantilla(p) = "critico" ->
         [plantilla |-> "critico",
          y0 |-> cs.valor_inicial,
          pendiente |-> cs.velocidad_inicial + Mul(omega_n(p), cs.valor_inicial),
          omega |-> omega_n(p)]
    [] OTHER ->
         [plantilla |-> "sobreamortiguado",
          r1 |-> Mul(-zeta_ecuaciones(p), omega_n(p))
                   + Mul(omega_n(p),
                         MathSqrt(Mul(zeta_ecuaciones(p), zeta_ecuaciones(p)) - Scale)),
          r2 |-> Mul(-zeta_ecuaciones(p), omega_n(p))
                   - Mul(omega_n(p),
                         MathSqrt(Mul(zeta_ecuaciones(p), zeta_ecuaciones(p)) - Scale))]

\* position_eq: the template with every number written by toFixed(2)
position_eq(s) ==
  CASE s.plantilla = "armonico_simple" ->
         <<"cos+sin", ToFixed2(s.y0), ToFixed2(s.omega), ToFixed2(s.v0_sobre_omega)>>
    [] s.plantilla = "subamortiguado" ->
         <<"e^[cos+sin]", ToFixed2(s.decaimiento), ToFixed2(s.A), ToFixed2(s.omega_d),
           ToFixed2(s.B)>>
    [] s.plantilla = "critico" ->
         <<"(a+bt)e^", ToFixed2(s.y0), ToFixed2(s.pendiente), ToFixed2(s.omega)>>
    [] OTHER ->
         <<"C_1 e^ + C_2 e^", ToFixed2(s.r1), ToFixed2(s.r2)>>

generateEquations(p, cs) ==
  [differential_eq |-> differential_eq(p),
   position_eq |-> position_eq(SolucionPosicion(p, cs))]

----------------------------------------------------------------------------
(* Inputs *)

Masas == {i * Scale : i \in 1..MaxMasa}
Resortes == {i * Scale : i \in 1..MaxResorte}
Amortiguamientos == {i * Scale : i \in 0..MaxAmortiguamiento}
Fuerzas == {"0", "sin(2*t)"}
ValoresIniciales == {-Scale, 0, Scale}
VelocidadesIniciales == {0, 2 * Scale}
\* step_time: 0, and a time that is not a multiple of dt
TiemposInicio == {0, 785}
Ventanas == {5 * j : j \in 1..MaxVentana}

ParametrosValidos ==
  [masa : Masas, constante_resorte : Resortes,
   constante_amortiguamiento : Amortiguamientos,
   fuerza : Fuerzas, tipo_ecuacion : tiposEcuacion]

ControlesValidos ==
  {[step_time |-> t0, stop_time |-> t0 + w, valor_inicial |-> y0, velocidad_inicial |-> v0] :
     t0 \in TiemposInicio, w \in Ventanas, y0 \in ValoresIniciales, v0 \in VelocidadesIniciales}

escalaInicial == [y_min |-> -2 * Scale, y_max |-> 2 * Scale, auto_escala |-> TRUE]

----------------------------------------------------------------------------
(* The generator alone: one call of simulateSystem on validated inputs *)

\* the useState initial values of App.js and SpringMassSimulation; no effect has run
AppInicial ==
  /\ montado = FALSE
  /\ backendStatus = "checking"
  /\ saludEnVuelo = 0
  /\ isAnimationPlaying = FALSE
  /\ currentAnimationFrame = 0
  /\ currentFrame = 0
  /\ animationSpeed = Scale
  /\ intervalos = <<>>
  /\ deps = Null
  /\ equations = Null
  /\ ecuacionesEnVuelo = {}
  /\ reiniciado = FALSE

InitSim ==
  /\ parametros \in ParametrosValidos
  /\ controlSimulacion \in ControlesValidos
  /\ escalaGrafico = escalaInicial
  /\ resultados = Null
  /\ loading = FALSE
  /\ error = ""
  /\ pendiente = Null
  /\ ramas = <<>>
  /\ invocaciones = 0
  /\ ediciones = 0
  /\ AppInicial

Simular ==
  /\ resultados = Null
  /\ resultados' = simulateSystem(parametros, controlSimulacion)
  /\ ramas' = Ramas(parametros, controlSimulacion)
  /\ invocaciones' = invocaciones + 1
  /\ UNCHANGED <<parametros, controlSimulacion, escalaGrafico, loading, error, pendiente, ediciones, varsApp>>

NextSim == Simular

SpecSim == InitSim /\ [][NextSim]_vars


----------------------------------------------------------------------------
(* Properties of the generator, checked under SpecSim *)

\* a trajectory has been returned for the inputs held by parametros and controlSimulacion
Hecho == resultados # Null

\* the sign of zeta - 1, from zeta = b / (2 sqrt(m k)) with b >= 0:  zeta < 1  iff  b^2 < 4 m k
ZetaMenorQueUno(p) ==
  p.constante_amortiguamiento * p.constante_amortiguamiento
    < 4 * p.masa * p.constante_resorte
ZetaIgualAUno(p) ==
  p.constante_amortiguamiento * p.constante_amortiguamiento
    = 4 * p.masa * p.constante_resorte

\* C1: for validated parameters and stop_time > step_time, tiempo, posicion,
\* velocidad and aceleracion all have length floor((stop_time - step_time)/0.01) + 1
C1_LongitudesIguales ==
  (Hecho /\ controlSimulacion.stop_time > controlSimulacion.step_time) =>
    LET N == ((controlSimulacion.stop_time - controlSimulacion.step_time) \div dt) + 1
    IN  /\ Len(resultados.tiempo) = N
        /\ Len(resultados.posicion) = N
        /\ Len(resultados.velocidad) = N
        /\ Len(resultados.aceleracion) = N

\* a window that is not a whole number of steps, so that the floor matters
C1_Witness ==
  /\ Hecho
  /\ (controlSimulacion.stop_time - controlSimulacion.step_time) % dt # 0
  /\ Len(resultados.posicion) = 3

\* C2: every sample is produced by the simple-harmonic arm iff tipo_ecuacion is
\* 'no_amortiguado'; for the three other kinds by the underdamped arm iff
\* zeta < 1 and by the critical/overdamped arm iff zeta >= 1
C2_SeleccionDeRama ==
  Hecho =>
    \A i \in 1..Len(ramas) :
      /\ (ramas[i] = "armonico_simple") <=> (parametros.tipo_ecuacion = "no_amortiguado")
      /\ parametros.tipo_ecuacion # "no_amortiguado" =>
           /\ (ramas[i] = "subamortiguado") <=> ZetaMenorQueUno(parametros)
           /\ (ramas[i] = "critico_sobreamortiguado") <=> ~ZetaMenorQueUno(parametros)

\* the undamped-forced kind, which contains 'no_amortiguado', takes a damped arm
C2_Witness ==
  /\ Hecho
  /\ parametros.tipo_ecuacion = "no_amortiguado_forzado"
  /\ Len(ramas) >= 2
  /\ ramas[2] = "critico_sobreamortiguado"

\* C3: tipo_amortiguamiento is 'subamortiguado' exactly when zeta < 1, 'crítico'
\* exactly when zeta = 1 and 'sobreamortiguado' exactly when zeta > 1;
\* m=1, k=4, b=4 is reported as 'crítico' with omega_0 = 2
C3_TipoAmortiguamiento ==
  Hecho =>
    LET tipo == resultados.parametros.tipo_amortiguamiento
    IN  /\ (tipo = "subamortiguado") <=> ZetaMenorQueUno(parametros)
        /\ (tipo = "crítico") <=> ZetaIgualAUno(parametros)
        /\ (tipo = "sobreamortiguado") <=>
             (~ZetaMenorQueUno(parametros) /\ ~ZetaIgualAUno(parametros))
        /\ ( /\ parametros.masa = Scale
             /\ parametros.constante_resorte = 4 * Scale
             /\ parametros.constante_amortiguamiento = 4 * Scale ) =>
               (tipo = "crítico" /\ resultados.parametros.omega_0 = 2 * Scale)

C3_Witness ==
  /\ Hecho
  /\ parametros.masa = Scale
  /\ parametros.constante_resorte = 4 * Scale
  /\ parametros.constante_amortiguamiento = 4 * Scale
  /\ resultados.parametros.tipo_amortiguamiento = "crítico"

\* C4: in the underdamped and the critical/overdamped arm every sample satisfies
\* aceleracion[i] = -(k/m)*posicion[i] - (b/m)*velocidad[i]
C4_EcuacionDeMovimiento ==
  Hecho =>
    \A i \in 1..Len(ramas) :
      ramas[i] \in {"subamortiguado", "critico_sobreamortiguado"} =>
        resultados.aceleracion[i] =
          Mul(Div(-parametros.constante_resorte, parametros.masa), resultados.posicion[i])
            - Mul(Div(parametros.constante_amortiguamiento, parametros.masa),
                  resultados.velocidad[i])

\* a damped sample whose damping term is not zero
C4_Witness ==
  /\ Hecho
  /\ Len(ramas) >= 2
  /\ ramas[2] = "subamortiguado"
  /\ parametros.constante_amortiguamiento > 0
  /\ resultados.velocidad[2] # 0

\* C5: undamped (b = 0, 'no_amortiguado') with step_time = 0: posicion[0] = y0
\* and velocidad[0] = v0
C5_CondicionesIniciales ==
  ( /\ Hecho
    /\ parametros.constante_amortiguamiento = 0
    /\ parametros.tipo_ecuacion = "no_amortiguado"
    /\ controlSimulacion.step_time = 0
    /\ Len(resultados.posicion) > 0 ) =>
      /\ resultados.posicion[1] = controlSimulacion.valor_inicial
      /\ resultados.velocidad[1] = controlSimulacion.velocidad_inicial

C5_Witness ==
  /\ Hecho
  /\ parametros.constante_amortiguamiento = 0
  /\ parametros.tipo_ecuacion = "no_amortiguado"
  /\ controlSimulacion.step_time = 0
  /\ parametros.constante_resorte # parametros.masa
  /\ controlSimulacion.valor_inicial # 0
  /\ resultados.velocidad[1] = 2 * Scale

\* C6: two calls whose inputs differ only in parametros.fuerza return the same
\* tiempo, posicion, velocidad, aceleracion and estadisticas
MismaTrayectoria(r1, r2) ==
  /\ r1.tiempo = r2.tiempo
  /\ r1.posicion = r2.posicion
  /\ r1.velocidad = r2.velocidad
  /\ r1.aceleracion = r2.aceleracion
  /\ r1.estadisticas = r2.estadisticas

C6_FuerzaInerte ==
  Hecho =>
    \A f \in Fuerzas :
      MismaTrayectoria(simulateSystem([parametros EXCEPT !.fuerza = f], controlSimulacion),
                       resultados)

\* a forced kind with a forcing expression and a trajectory that is not constant
C6_Witness ==
  /\ Hecho
  /\ parametros.fuerza = "sin(2*t)"
  /\ parametros.tipo_ecuacion = "no_amortiguado_forzado"
  /\ parametros.constante_amortiguamiento > 0
  /\ resultados.estadisticas.amplitud # 0
  /\ Len(resultados.posicion) >= 2

\* C7: for every m, k, b, y0, v0 and window, tipo_ecuacion = 'no_amortiguado_forzado'
\* returns the same posicion, velocidad and aceleracion as 'no_amortiguado'
MismasSeries(r1, r2) ==
  /\ r1.posicion = r2.posicion
  /\ r1.velocidad = r2.velocidad
  /\ r1.aceleracion = r2.aceleracion

C7_ForzadoIgualANoAmortiguado ==
  (Hecho /\ parametros.tipo_ecuacion = "no_amortiguado_forzado") =>
    MismasSeries(simulateSystem([parametros EXCEPT !.tipo_ecuacion = "no_amortiguado"],
                                controlSimulacion),
                 resultados)

Rango(xs) == {xs[i] : i \in 1..Len(xs)}

EsMaximoDe(v, xs) == v \in Rango(xs) /\ \A x \in Rango(xs) : x <= v
EsMinimoDe(v, xs) == v \in Rango(xs) /\ \A x \in Rango(xs) : v <= x

\* C8: posicion_maxima and posicion_minima are the greatest and least element of
\* posicion, amplitud is their difference, and the velocity and acceleration
\* maxima and minima are the extrema of velocidad and aceleracion
C8_Estadisticas ==
  (Hecho /\ Len(resultados.posicion) > 0) =>
    LET e == resultados.estadisticas
    IN  /\ EsMaximoDe(e.posicion_maxima, resultados.posicion)
        /\ EsMinimoDe(e.posicion_minima, resultados.posicion)
        /\ e.amplitud = e.posicion_maxima - e.posicion_minima
        /\ EsMaximoDe(e.velocidad_maxima, resultados.velocidad)
        /\ EsMinimoDe(e.velocidad_minima, resultados.velocidad)
        /\ EsMaximoDe(e.aceleracion_maxima, resultados.aceleracion)
        /\ EsMinimoDe(e.aceleracion_minima, resultados.aceleracion)

\* a series of negative positions whose maximum is its last element
C8_Witness ==
  /\ Hecho
  /\ Len(resultados.posicion) = 3
  /\ resultados.posicion[1] < resultados.posicion[2]
  /\ resultados.posicion[2] < resultados.posicion[3]
  /\ resultados.posicion[3] < 0
  /\ resultados.estadisticas.posicion_maxima = resultados.posicion[3]
  /\ resultados.estadisticas.amplitud > 0

\* C10: tiempo[0] = step_time and tiempo[i] = step_time + i*0.01 for every i, so
\* consecutive time samples differ by one step dt
C10_Tiempo ==
  Hecho =>
    /\ Len(resultados.tiempo) > 0 => resultados.tiempo[1] = controlSimulacion.step_time
    /\ \A n \in 1..Len(resultados.tiempo) :
         /\ resultados.tiempo[n] = controlSimulacion.step_time + (n - 1) * dt
         /\ n > 1 => resultados.tiempo[n] - resultados.tiempo[n - 1] = dt

C10_Witness ==
  /\ Hecho
  /\ controlSimulacion.step_time # 0
  /\ Len(resultados.tiempo) = 3
  /\ resultados.tiempo[3] = controlSimulacion.step_time + 2 * dt

\* the conditions checked by the validation of ejecutarSimulacion
EntradaValidada(p) ==
  p.masa > 0 /\ p.constante_resorte > 0 /\ p.constante_amortiguamiento >= 0

\* C11: for every input that passes validation no division by zero and no square
\* root of a negative number occurs in simulateSystem: the mass and the divisor of
\* zeta are positive, the arguments of the square roots of omega and zeta are not
\* negative, omega > 0, and wherever the underdamped arm is the one taken
\* 1 - zeta^2 > 0 and the divisor omegaD is not zero
C11_SinDivisionPorCero ==
  EntradaValidada(parametros) =>
    /\ Div(parametros.constante_resorte, parametros.masa) >= 0
    /\ Mul(parametros.masa, parametros.constante_resorte) >= 0
    /\ DivisorDeZeta(parametros) > 0
    /\ Omega(parametros) > 0
    /\ (~EsArmonicoSimple(parametros) /\ EsSubamortiguado(parametros)) =>
         /\ UnoMenosZetaCuadrado(parametros) > 0
         /\ OmegaD(parametros) # 0
    /\ Hecho =>
         \A n \in 1..Len(ramas) :
           ramas[n] = "subamortiguado" =>
             UnoMenosZetaCuadrado(parametros) > 0 /\ OmegaD(parametros) # 0

\* the underdamped arm has run, for a zeta just below 1 and for a small omega
C11_Witness ==
  /\ Hecho
  /\ EntradaValidada(parametros)
  /\ Len(ramas) = 3
  /\ ramas[3] = "subamortiguado"
  /\ parametros.constante_amortiguamiento > 0
  /\ UnoMenosZetaCuadrado(parametros) <= Scale \div 2
  /\ Omega(parametros) < Scale

\* the label of tipo_amortiguamiento that names the regime of a template
EtiquetaDePlantilla(plantilla) ==
  CASE plantilla = "subamortiguado" -> "subamortiguado"
    [] plantilla = "critico" -> "crítico"
    [] plantilla = "sobreamortiguado" -> "sobreamortiguado"
    [] OTHER -> "ninguna"

\* C12: generateEquations computes the same omega_0 and zeta as simulateSystem and
\* chooses its template by the same boundaries: the simple harmonic template iff
\* tipo_ecuacion is 'no_amortiguado'; otherwise the underdamped template iff
\* zeta < 1, the critical one iff zeta = 1, the overdamped one iff zeta > 1, and the
\* template chosen is the regime named by tipo_amortiguamiento
C12_MismosRegimenes ==
  Hecho =>
    /\ omega_n(parametros) = resultados.parametros.frecuencia_natural
    /\ omega_n(parametros) = resultados.parametros.omega_0
    /\ zeta_ecuaciones(parametros) = resultados.parametros.coeficiente_amortiguamiento
    /\ Plantilla(parametros) = "armonico_simple"
         <=> parametros.tipo_ecuacion = "no_amortiguado"
    /\ parametros.tipo_ecuacion # "no_amortiguado" =>
         /\ Plantilla(parametros) = "subamortiguado" <=> ZetaMenorQueUno(parametros)
         /\ Plantilla(parametros) = "critico" <=> ZetaIgualAUno(parametros)
         /\ Plantilla(parametros) = "sobreamortiguado"
              <=> (~ZetaMenorQueUno(parametros) /\ ~ZetaIgualAUno(parametros))
         /\ EtiquetaDePlantilla(Plantilla(parametros))
              = resultados.parametros.tipo_amortiguamiento
         /\ \A n \in 1..Len(ramas) :
              ramas[n] = "subamortiguado" <=> Plantilla(parametros) = "subamortiguado"

\* each of the four templates has been chosen for a trajectory that was returned;
\* here the overdamped one, for a forced kind
C12_Witness ==
  /\ Hecho
  /\ Len(ramas) = 3
  /\ parametros.tipo_ecuacion = "no_amortiguado_forzado"
  /\ Plantilla(parametros) = "sobreamortiguado"
  /\ resultados.parametros.tipo_amortiguamiento = "sobreamortiguado"
  /\ resultados.parametros.coeficiente_amortiguamiento > Scale

\* the value at time t of the position solution s that generateEquations displays
\* (the overdamped template displays no value: C_1 and C_2 are left as symbols)
EvaluarSolucion(s, t) ==
  CASE s.plantilla = "armonico_simple" ->
         Mul(s.y0, MathCos(Mul(s.omega, t)))
           + Mul(s.v0_sobre_omega, MathSin(Mul(s.omega, t)))
    [] s.plantilla = "subamortiguado" ->
         Mul(MathExp(Mul(-s.decaimiento, t)),
             Mul(s.A, MathCos(Mul(s.omega_d, t))) + Mul(s.B, MathSin(Mul(s.omega_d, t))))
    [] s.plantilla = "critico" ->
         Mul(s.y0 + Mul(s.pendiente, t), MathExp(Mul(-s.omega, t)))

\* the solution displayed by s is the curve xs sampled at the times ts
MismaCurva(s, ts, xs) ==
  /\ s.plantilla # "sobreamortiguado"
  /\ \A n \in 1..Len(ts) : EvaluarSolucion(s, ts[n]) = xs[n]

\* C13: the displayed equations always match the plotted trajectory: in every
\* regime, zeta = 1 and zeta > 1 included, the position solution that
\* generateEquations displays has its coefficients computed from y0, v0, omega_0
\* and zeta and is the closed form whose values are posicion
C13_EcuacionIgualATrayectoria ==
  Hecho =>
    MismaCurva(SolucionPosicion(parametros, controlSimulacion),
               resultados.tiempo, resultados.posicion)

\* the same statement in the two regimes where the templates agree
C13_SoloArmonicoYSubamortiguado ==
  (Hecho /\ Plantilla(parametros) \in {"armonico_simple", "subamortiguado"}) =>
    MismaCurva(SolucionPosicion(parametros, controlSimulacion),
               resultados.tiempo, resultados.posicion)

\* C23: in the critical/overdamped arm (zeta >= 1, kind other than
\* 'no_amortiguado') the trajectory does not depend on velocidad_inicial: every
\* other v0 gives the same posicion, velocidad and aceleracion; with
\* step_time = 0 the first sample is posicion[0] = y0 and
\* velocidad[0] = -zeta*omega_0*y0, which is v0 only if v0 has that value
C23_IndependienteDeV0 ==
  (Hecho /\ parametros.tipo_ecuacion # "no_amortiguado" /\ ~ZetaMenorQueUno(parametros)) =>
    /\ \A v \in VelocidadesIniciales :
         MismasSeries(simulateSystem(parametros,
                                     [controlSimulacion EXCEPT !.velocidad_inicial = v]),
                      resultados)
    /\ (controlSimulacion.step_time = 0 /\ Len(resultados.posicion) >= 1) =>
         LET primera == Mul(Mul(-Zeta(parametros), Omega(parametros)),
                            controlSimulacion.valor_inicial)
         IN  /\ resultados.posicion[1] = controlSimulacion.valor_inicial
             /\ resultados.velocidad[1] = primera
             /\ (controlSimulacion.velocidad_inicial # primera) =>
                  resultados.velocidad[1] # controlSimulacion.velocidad_inicial

\* an overdamped call from t = 0 with y0 = 1 and v0 = 2: the first velocity is
\* negative, not the initial velocity asked for
C23_Witness ==
  /\ Hecho
  /\ parametros.tipo_ecuacion = "amortiguado"
  /\ ~ZetaMenorQueUno(parametros) /\ ~ZetaIgualAUno(parametros)
  /\ controlSimulacion.step_time = 0
  /\ controlSimulacion.valor_inicial = Scale
  /\ controlSimulacion.velocidad_inicial = 2 * Scale
  /\ Len(resultados.posicion) >= 2
  /\ resultados.velocidad[1] < 0
  /\ ramas[1] = "critico_sobreamortiguado"

\* C30: the reported damping regime names the arm that produced the samples:
\* tipo_amortiguamiento is 'crítico' or 'sobreamortiguado' if and only if the
\* samples come from the zeta >= 1 arm, also for 'no_amortiguado' with b > 0
C30_EtiquetaNombraLaRama ==
  Hecho =>
    \A n \in 1..Len(ramas) :
      (resultados.parametros.tipo_amortiguamiento \in {"crítico", "sobreamortiguado"})
        <=> (ramas[n] = "critico_sobreamortiguado")

\* the same statement for the kinds that do not take the simple harmonic arm
C30_SoloRamasAmortiguadas ==
  (Hecho /\ ~EsArmonicoSimple(parametros)) =>
    \A n \in 1..Len(ramas) :
      (resultados.parametros.tipo_amortiguamiento \in {"crítico", "sobreamortiguado"})
        <=> (ramas[n] = "critico_sobreamortiguado")

----------------------------------------------------------------------------
(* The component SimuladorMasaResorte of points.js *)

\* the examples stored by the mount effect
ejemplos ==
  { [masa |-> Scale, constante_resorte |-> 4 * Scale, constante_amortiguamiento |-> 0,
     fuerza |-> "0", tipo_ecuacion |-> "no_amortiguado",
     valor_inicial |-> Scale, velocidad_inicial |-> 0],
    [masa |-> Scale, constante_resorte |-> 4 * Scale, constante_amortiguamiento |-> 4 * Scale,
     fuerza |-> "0", tipo_ecuacion |-> "amortiguado",
     valor_inicial |-> Scale, velocidad_inicial |-> 0],
    [masa |-> Scale, constante_resorte |-> 4 * Scale, constante_amortiguamiento |-> Scale \div 2,
     fuerza |-> "sin(2*t)", tipo_ecuacion |-> "amortiguado_forzado",
     valor_inicial |-> 0, velocidad_inicial |-> 0] }

\* values typed into the number inputs ( parseFloat(e.target.value) || 0 )
MasasUI == {0, 2 * Scale}
ResortesUI == {-Scale, Scale}
AmortiguamientosUI == {-Scale, 4 * Scale}
TiemposInicioUI == {10, 20}
TiemposFinUI == {0, 25}
ValoresInicialesUI == {0, -Scale}
VelocidadesInicialesUI == {2 * Scale}
LimitesUI == {-Scale, Scale}

Init ==
  /\ parametros = [masa |-> Scale, constante_resorte |-> 4 * Scale,
                   constante_amortiguamiento |-> Scale \div 5,
                   fuerza |-> "0", tipo_ecuacion |-> "amortiguado"]
  /\ controlSimulacion = [step_time |-> 0, stop_time |-> 10 * Scale,
                          valor_inicial |-> Scale, velocidad_inicial |-> 0]
  /\ escalaGrafico = escalaInicial
  /\ resultados = Null
  /\ loading = FALSE
  /\ error = ""
  /\ pendiente = Null
  /\ ramas = <<>>
  /\ invocaciones = 0
  /\ ediciones = 0
  /\ AppInicial

Edita ==
  /\ ediciones < MaxEdiciones
  /\ ediciones' = ediciones + 1
  /\ UNCHANGED varsApp

NoSimula == UNCHANGED <<resultados, loading, error, pendiente, ramas, invocaciones>>

setMasa ==
  /\ Edita
  /\ \E v \in MasasUI : parametros' = [parametros EXCEPT !.masa = v]
  /\ UNCHANGED <<controlSimulacion, escalaGrafico>>
  /\ NoSimula

setConstanteResorte ==
  /\ Edita
  /\ \E v \in ResortesUI : parametros' = [parametros EXCEPT !.constante_resorte = v]
  /\ UNCHANGED <<controlSimulacion, escalaGrafico>>
  /\ NoSimula

setConstanteAmortiguamiento ==
  /\ Edita
  /\ \E v \in AmortiguamientosUI :
       parametros' = [parametros EXCEPT !.constante_amortiguamiento = v]
  /\ UNCHANGED <<controlSimulacion, escalaGrafico>>
  /\ NoSimula

setFuerza ==
  /\ Edita
  /\ \E v \in Fuerzas : parametros' = [parametros EXCEPT !.fuerza = v]
  /\ UNCHANGED <<controlSimulacion, escalaGrafico>>
  /\ NoSimula

setTipoEcuacion ==
  /\ Edita
  /\ \E v \in tiposEcuacion : parametros' = [parametros EXCEPT !.tipo_ecuacion = v]
  /\ UNCHANGED <<controlSimulacion, escalaGrafico>>
  /\ NoSimula

setStepTime ==
  /\ Edita
  /\ \E v \in TiemposInicioUI : controlSimulacion' = [controlSimulacion EXCEPT !.step_time = v]
  /\ UNCHANGED <<parametros, escalaGrafico>>
  /\ NoSimula

setStopTime ==
  /\ Edita
  /\ \E v \in TiemposFinUI : controlSimulacion' = [controlSimulacion EXCEPT !.stop_time = v]
  /\ UNCHANGED <<parametros, escalaGrafico>>
  /\ NoSimula

setValorInicial ==
  /\ Edita
  /\ \E v \in ValoresInicialesUI :
       controlSimulacion' = [controlSimulacion EXCEPT !.valor_inicial = v]
  /\ UNCHANGED <<parametros, escalaGrafico>>
  /\ NoSimula

setVelocidadInicial ==
  /\ Edita
  /\ \E v \in VelocidadesInicialesUI :
       controlSimulacion' = [controlSimulacion EXCEPT !.velocidad_inicial = v]
  /\ UNCHANGED <<parametros, escalaGrafico>>
  /\ NoSimula

\* the Y Max and Y Min inputs are disabled while auto_escala is set
setYMax ==
  /\ Edita
  /\ ~escalaGrafico.auto_escala
  /\ \E v \in LimitesUI : escalaGrafico' = [escalaGrafico EXCEPT !.y_max = v, !.auto_escala = FALSE]
  /\ UNCHANGED <<parametros, controlSimulacion>>
  /\ NoSimula

setYMin ==
  /\ Edita
  /\ ~escalaGrafico.auto_escala
  /\ \E v \in LimitesUI : escalaGrafico' = [escalaGrafico EXCEPT !.y_min = v, !.auto_escala = FALSE]
  /\ UNCHANGED <<parametros, controlSimulacion>>
  /\ NoSimula

setAutoEscala ==
  /\ Edita
  /\ \E v \in BOOLEAN : escalaGrafico' = [escalaGrafico EXCEPT !.auto_escala = v]
  /\ UNCHANGED <<parametros, controlSimulacion>>
  /\ NoSimula

cargarEjemplo ==
  /\ Edita
  /\ \E ejemplo \in ejemplos :
       /\ parametros' = [masa |-> ejemplo.masa,
                         constante_resorte |-> ejemplo.constante_resorte,
                         constante_amortiguamiento |-> ejemplo.constante_amortiguamiento,
                         fuerza |-> ejemplo.fuerza,
                         tipo_ecuacion |-> ejemplo.tipo_ecuacion]
       /\ controlSimulacion' = [controlSimulacion EXCEPT
                                  !.valor_inicial = ejemplo.valor_inicial,
                                  !.velocidad_inicial = ejemplo.velocidad_inicial]
  /\ resultados' = Null
  /\ UNCHANGED <<escalaGrafico, loading, error, pendiente, ramas, invocaciones>>

reiniciarSimulacion ==
  /\ resultados' = Null
  /\ error' = ""
  /\ UNCHANGED <<parametros, controlSimulacion, escalaGrafico, loading, pendiente,
                 ramas, invocaciones, ediciones, varsApp>>

\* mutant: a mass of zero let through
ValidarMasaNoNegativa(p) ==
  IF p.masa < 0 THEN "La masa debe ser positiva"
  ELSE IF p.constante_resorte <= 0 THEN "La constante del resorte debe ser positiva"
  ELSE IF p.constante_amortiguamiento < 0
    THEN "La constante de amortiguamiento no puede ser negativa"
  ELSE ""

\* the message of the Error thrown by the validation, "" when nothing is thrown
Validar(p) ==
  IF p.masa <= 0 THEN "La masa debe ser positiva"
  ELSE IF p.constante_resorte <= 0 THEN "La constante del resorte debe ser positiva"
  ELSE IF p.constante_amortiguamiento < 0
    THEN "La constante de amortiguamiento no puede ser negativa"
  ELSE ""

\* setError(err.message || 'Error en la simulación')
MensajeDeError(msg) == IF msg = "" THEN "Error en la simulación" ELSE msg

\* ejecutarSimulacion, the validation throws: try, catch and finally run in the click
ejecutarSimulacionRechaza ==
  /\ ~loading
  /\ Validar(parametros) # ""
  /\ error' = MensajeDeError(Validar(parametros))
  /\ loading' = FALSE
  /\ UNCHANGED <<parametros, controlSimulacion, escalaGrafico, resultados, pendiente,
                 ramas, invocaciones, ediciones, varsApp>>

\* ejecutarSimulacion up to its await; the closure keeps the state of the render
ejecutarSimulacionInicia ==
  /\ ~loading
  /\ Validar(parametros) = ""
  /\ invocaciones < MaxInvocaciones
  /\ Steps(controlSimulacion) <= MaxPasos
  /\ loading' = TRUE
  /\ error' = ""
  /\ pendiente' = [parametros |-> parametros, controlSimulacion |-> controlSimulacion,
                   auto_escala |-> escalaGrafico.auto_escala]
  /\ UNCHANGED <<parametros, controlSimulacion, escalaGrafico, resultados,
                 ramas, invocaciones, ediciones, varsApp>>

\* the auto-scale update  prev => ({...prev, y_min: ..., y_max: ...})
AutoEscala(prev, posiciones) ==
  IF Len(posiciones) = 0
  THEN [prev EXCEPT !.y_min = PosInfinity, !.y_max = NegInfinity]
  ELSE LET margen == Scale \div 10
           rango == MathMax(posiciones) - MathMin(posiciones)
       IN  [prev EXCEPT !.y_min = MathMin(posiciones) - Mul(rango, margen),
                        !.y_max = MathMax(posiciones) + Mul(rango, margen)]

\* ejecutarSimulacion after the await: simulateSystem, setResultados, auto-scale, finally
ejecutarSimulacionTermina ==
  /\ pendiente # Null
  /\ resultados' = simulateSystem(pendiente.parametros, pendiente.controlSimulacion)
  /\ escalaGrafico' = IF pendiente.auto_escala
                      THEN AutoEscala(escalaGrafico, resultados'.posicion)
                      ELSE escalaGrafico
  /\ ramas' = Ramas(pendiente.parametros, pendiente.controlSimulacion)
  /\ invocaciones' = invocaciones + 1
  /\ loading' = FALSE
  /\ pendiente' = Null
  /\ UNCHANGED <<parametros, controlSimulacion, error, ediciones, varsApp>>

Next ==
  \/ setMasa
  \/ setConstanteResorte
  \/ setConstanteAmortiguamiento
  \/ setFuerza
  \/ setTipoEcuacion
  \/ setStepTime
  \/ setStopTime
  \/ setValorInicial
  \/ setVelocidadInicial
  \/ setYMax
  \/ setYMin
  \/ setAutoEscala
  \/ cargarEjemplo
  \/ reiniciarSimulacion
  \/ ejecutarSimulacionRechaza
  \/ ejecutarSimulacionInicia
  \/ ejecutarSimulacionTermina

Spec == Init /\ [][Next]_vars

----------------------------------------------------------------------------
(* Properties of the component, checked under Spec *)

\* a click of Simular
ClickSimular == ejecutarSimulacionRechaza \/ ejecutarSimulacionInicia

ParametrosInvalidos ==
  \/ parametros.masa <= 0
  \/ parametros.constante_resorte <= 0
  \/ parametros.constante_amortiguamiento < 0

\* C9: ejecutarSimulacion run with masa <= 0, constante_resorte <= 0 or
\* constante_amortiguamiento < 0 sets a non-empty error message, does not invoke
\* simulateSystem, leaves resultados as it was and ends with loading = false
C9_EntradaInvalida ==
  [][ (ClickSimular /\ ParametrosInvalidos) =>
        /\ error' # ""
        /\ invocaciones' = invocaciones
        /\ pendiente' = Null
        /\ ramas' = ramas
        /\ resultados' = resultados
        /\ loading' = FALSE ]_vars

\* an invalid run after a successful one: the stored trajectory is still there
C9_Witness ==
  /\ ParametrosInvalidos
  /\ error \in {"La masa debe ser positiva",
                "La constante del resorte debe ser positiva",
                "La constante de amortiguamiento no puede ser negativa"}
  /\ resultados # Null
  /\ invocaciones = 1
  /\ ~loading
  /\ pendiente = Null

\* C21: after a simulation completes with auto_escala enabled the display range
\* has a minimum visible margin: y_max > y_min strictly, also when every
\* posicion sample is equal, as for the system at rest (y0 = 0 and v0 = 0)
C21_MargenMinimo ==
  [][(/\ ejecutarSimulacionTermina
      /\ pendiente.auto_escala
      /\ pendiente.controlSimulacion.valor_inicial = 0
      /\ pendiente.controlSimulacion.velocidad_inicial = 0
      /\ Len(resultados'.posicion) >= 1) =>
         escalaGrafico'.y_max > escalaGrafico'.y_min]_vars

\* the same statement for the trajectories whose posicion is not constant
C21_ConRango ==
  [][(/\ ejecutarSimulacionTermina
      /\ pendiente.auto_escala
      /\ Len(resultados'.posicion) >= 1
      /\ resultados'.estadisticas.amplitud > 0) =>
         escalaGrafico'.y_max > escalaGrafico'.y_min]_vars

\* C24: every trajectory stored in resultados has at least one sample, for
\* every step_time and stop_time that can be entered, stop_time < step_time
\* and stop_time = step_time included
C24_AlMenosUnaMuestra ==
  resultados # Null => Len(resultados.posicion) >= 1

\* the same statement for the windows with stop_time >= step_time
C24_VentanaNoNegativa ==
  [][(ejecutarSimulacionTermina
        /\ pendiente.controlSimulacion.stop_time >= pendiente.controlSimulacion.step_time) =>
       Len(resultados'.posicion) >= 1]_vars

----------------------------------------------------------------------------
(* The component SimuladorMasaResorte of App.js, with its SimulatorAPI and the
   SpringMassSimulation it renders while resultados is not null *)

\* the messages of the TypeError with which fetch rejects when there is no
\* connection; the text depends on the browser
MensajesDeFetch == {"Failed to fetch", "Load failed"}

\* data.error of a response that is not ok; "" when the body has no error field
ErroresDelServidor == {"", "No se pudo conectar con el motor de cálculo"}

\* data.resultados of a response that is ok: the remote generator, which returns
\* what the local generator returns
GeneradorRemoto(p, cs) == simulateSystem(p, cs)

\* the options of the speed select
Velocidades == {Scale \div 4, Scale \div 2, Scale, 2 * Scale, 4 * Scale}

\* setInterval(animate, 16)
Periodo == 16

InitApp ==
  /\ parametros = [masa |-> Scale, constante_resorte |-> 4 * Scale,
                   constante_amortiguamiento |-> Scale \div 5,
                   fuerza |-> "0", tipo_ecuacion |-> "amortiguado"]
  /\ controlSimulacion = [step_time |-> 0, stop_time |-> 10 * Scale,
                          valor_inicial |-> Scale, velocidad_inicial |-> 0]
  /\ escalaGrafico = escalaInicial
  /\ resultados = Null
  /\ loading = FALSE
  /\ error = ""
  /\ pendiente = Null
  /\ ramas = <<>>
  /\ invocaciones = 0
  /\ ediciones = 0
  /\ AppInicial

\* the variables of the form and of the simulate request
varsFormulario == <<parametros, controlSimulacion, escalaGrafico, ramas, ediciones>>
varsSolicitud == <<resultados, loading, error, pendiente, invocaciones>>
varsAnimacion == <<isAnimationPlaying, currentAnimationFrame, currentFrame,
                   animationSpeed, intervalos, deps>>
varsEcuaciones == <<equations, ecuacionesEnVuelo>>

\* updateEquations up to its await, in a render that holds p and cs
updateEquationsInicia(p, cs) ==
  ecuacionesEnVuelo' = ecuacionesEnVuelo \cup {[parametros |-> p, controlSimulacion |-> cs]}

\* checkBackendHealth up to its await
checkBackendHealthInicia ==
  /\ backendStatus' = "checking"
  /\ saludEnVuelo' = saludEnVuelo + 1

\* the effects of the first render: useEffect(() => { checkBackendHealth();
\* loadExamples(); }, []) and useEffect(() => { updateEquations(); }, [parametros,
\* controlSimulacion])
efectoMontaje ==
  /\ ~montado
  /\ montado' = TRUE
  /\ checkBackendHealthInicia
  /\ updateEquationsInicia(parametros, controlSimulacion)
  /\ UNCHANGED <<equations, reiniciado, varsFormulario, varsSolicitud, varsAnimacion>>

\* the button 'Reintentar', rendered while backendStatus is 'offline'
clickReintentar ==
  /\ montado
  /\ backendStatus = "offline"
  /\ saludEnVuelo < MaxSalud
  /\ checkBackendHealthInicia
  /\ UNCHANGED <<varsEcuaciones, reiniciado, montado, varsFormulario, varsSolicitud, varsAnimacion>>

\* the message thrown by ejecutarSimulacion after its own health check
MensajeBackendNoDisponible ==
  "Backend no disponible. Asegúrate de que el servidor esté ejecutándose en http://localhost:5000/api"

\* checkBackendHealth after its await, isOnline being the value of checkHealth; a call
\* of ejecutarSimulacion that awaits the check goes on with the backendStatus of its
\* closure, which is 'offline', and throws
checkBackendHealthTermina(isOnline) ==
  /\ saludEnVuelo > 0
  /\ saludEnVuelo' = saludEnVuelo - 1
  /\ backendStatus' = IF isOnline THEN "online" ELSE "offline"
  /\ IF pendiente # Null /\ pendiente.espera = "checkHealth"
     THEN /\ error' = MensajeDeError(MensajeBackendNoDisponible)
          /\ loading' = FALSE
          /\ pendiente' = Null
     ELSE UNCHANGED <<error, loading, pendiente>>
  /\ UNCHANGED <<varsEcuaciones, reiniciado, montado, varsFormulario, resultados, invocaciones, varsAnimacion>>

checkHealthResponde == \E isOnline \in BOOLEAN : checkBackendHealthTermina(isOnline)

\* mutant: the button disabled by loading alone
SimularDeshabilitadoSoloPorLoading == loading

\* disabled={loading || backendStatus === 'offline'} of the button 'Simular'
SimularDeshabilitado == loading \/ backendStatus = "offline"

\* ejecutarSimulacion up to its first await: that of checkBackendHealth when the
\* backendStatus of the render is 'offline', that of SimulatorAPI.simulate otherwise
ejecutarSimulacionRemota ==
  /\ montado
  /\ ~SimularDeshabilitado
  /\ reiniciado' = FALSE
  /\ loading' = TRUE
  /\ error' = ""
  /\ IF backendStatus = "offline"
     THEN /\ checkBackendHealthInicia
          /\ pendiente' = [espera |-> "checkHealth"]
          /\ UNCHANGED invocaciones
     ELSE /\ Steps(controlSimulacion) <= MaxPasos
          /\ pendiente' = [espera |-> "simulate", parametros |-> parametros,
                           controlSimulacion |-> controlSimulacion,
                           auto_escala |-> escalaGrafico.auto_escala]
          /\ UNCHANGED <<backendStatus, saludEnVuelo, invocaciones>>
  /\ UNCHANGED <<varsEcuaciones, montado, varsFormulario, resultados, varsAnimacion>>

\* SimulatorAPI.simulate when fetch rejects with a TypeError of message m: the
\* message of the Error it throws
simulateRechazado(m) == IF Includes(m, "fetch") THEN MensajeSinConexion ELSE m

\* SimulatorAPI.simulate when the response is not ok:  data.error || 'Error en la simulación'
simulateNoOk(e) == IF e = "" THEN "Error en la simulación" ELSE e

\* mutant: the catch without the finally, loading is left as it is
ejecutarSimulacionCatchSinFinally(msg) ==
  /\ error' = MensajeDeError(msg)
  /\ backendStatus' = IF Includes(msg, "conectar") THEN "offline" ELSE backendStatus
  /\ pendiente' = Null
  /\ UNCHANGED <<varsEcuaciones, reiniciado, montado, saludEnVuelo, varsFormulario,
                 resultados, invocaciones, varsAnimacion, loading>>

\* the catch and finally of ejecutarSimulacion for an Error of message msg
ejecutarSimulacionCatch(msg) ==
  /\ error' = MensajeDeError(msg)
  /\ backendStatus' = IF Includes(msg, "conectar") THEN "offline" ELSE backendStatus
  /\ loading' = FALSE
  /\ pendiente' = Null
  /\ UNCHANGED <<varsEcuaciones, reiniciado, montado, saludEnVuelo, varsFormulario, resultados, invocaciones,
                 varsAnimacion>>

EsperaSimulate == pendiente # Null /\ pendiente.espera = "simulate"

\* the request fails for lack of connection
simulateFallaDeConexion(m) ==
  /\ EsperaSimulate
  /\ ejecutarSimulacionCatch(simulateRechazado(m))

\* the server answers with an error response
simulateErrorDelServidor(e) ==
  /\ EsperaSimulate
  /\ ejecutarSimulacionCatch(simulateNoOk(e))

\* the server answers with a trajectory: setResultados, auto-scale,
\* setBackendStatus('online'), finally
simulateOk ==
  /\ EsperaSimulate
  /\ resultados' = GeneradorRemoto(pendiente.parametros, pendiente.controlSimulacion)
  /\ escalaGrafico' = IF pendiente.auto_escala
                      THEN AutoEscala(escalaGrafico, resultados'.posicion)
                      ELSE escalaGrafico
  /\ backendStatus' = "online"
  /\ loading' = FALSE
  /\ pendiente' = Null
  /\ UNCHANGED <<varsEcuaciones, reiniciado, montado, saludEnVuelo, parametros, controlSimulacion, ramas, ediciones,
                 error, invocaciones, varsAnimacion>>

simulateFalla == \E m \in MensajesDeFetch : simulateFallaDeConexion(m)

simulateError == \E e \in ErroresDelServidor : simulateErrorDelServidor(e)

\* mutant: the cleanup of the effect does not clear its interval
clearIntervalOmitido(ids, d) == ids

\* the cleanup returned by the run of the effect with dependencies d: it clears the
\* interval that run set, the last one set; a run that returned early has no cleanup
clearInterval(ids, d) ==
  IF d # Null /\ d.isPlaying /\ Len(ids) > 0
  THEN SubSeq(ids, 1, Len(ids) - 1)
  ELSE ids

\* reiniciarSimulacion of App.js; SpringMassSimulation is unmounted, which runs the
\* cleanup of its effect and discards its state
reiniciarSimulacionApp ==
  /\ montado
  /\ resultados' = Null
  /\ error' = ""
  /\ isAnimationPlaying' = FALSE
  /\ currentAnimationFrame' = 0
  /\ currentFrame' = 0
  /\ animationSpeed' = Scale
  /\ intervalos' = clearInterval(intervalos, deps)
  /\ deps' = Null
  /\ reiniciado' = TRUE
  /\ UNCHANGED <<varsEcuaciones, montado, backendStatus, saludEnVuelo, varsFormulario, loading,
                 pendiente, invocaciones>>

\* handleAnimationPlayPause of a render that saw isAnimationPlaying = visto: the
\* value it sets
handleAnimationPlayPause(visto) == ~visto

\* the button 'Reproducir' / 'Pausar'
clickPlayPause ==
  /\ resultados # Null
  /\ isAnimationPlaying' = handleAnimationPlayPause(isAnimationPlaying)
  /\ UNCHANGED <<varsEcuaciones, reiniciado, montado, backendStatus, saludEnVuelo, varsFormulario, varsSolicitud,
                 currentAnimationFrame, currentFrame, animationSpeed, intervalos, deps>>

\* handleReset: setCurrentFrame(0) and onReset()
handleReset ==
  /\ resultados # Null
  /\ currentFrame' = 0
  /\ isAnimationPlaying' = FALSE
  /\ UNCHANGED <<varsEcuaciones, reiniciado, montado, backendStatus, saludEnVuelo, varsFormulario, varsSolicitud,
                 currentAnimationFrame, animationSpeed, intervalos, deps>>

\* onChange of the speed select
setAnimationSpeed ==
  /\ resultados # Null
  /\ \E v \in Velocidades \ {animationSpeed} : animationSpeed' = v
  /\ UNCHANGED <<varsEcuaciones, reiniciado, montado, backendStatus, saludEnVuelo, varsFormulario, varsSolicitud,
                 isAnimationPlaying, currentAnimationFrame, currentFrame, intervalos, deps>>

\* the dependencies of the animation effect in the current render (onPlayPause is
\* a new function in every render of App and closes over isAnimationPlaying)
DepsActuales ==
  [isPlaying |-> isAnimationPlaying, animationSpeed |-> animationSpeed,
   resultados |-> resultados]

\* the body of the effect: no interval unless resultados && isPlaying
setInterval(ids) ==
  IF resultados # Null /\ isAnimationPlaying
  THEN Append(ids, [animationSpeed |-> animationSpeed,
                    longitud |-> Len(resultados.posicion),
                    isPlaying |-> isAnimationPlaying,
                    periodo |-> Periodo])
  ELSE ids

\* the animation effect runs after a render whose dependencies changed: the cleanup
\* of the previous run, then the body
EfectoPendiente == resultados # Null /\ deps # DepsActuales

efectoAnimacion ==
  /\ EfectoPendiente
  /\ intervalos' = setInterval(clearInterval(intervalos, deps))
  /\ deps' = DepsActuales
  /\ UNCHANGED <<varsEcuaciones, reiniciado, montado, backendStatus, saludEnVuelo, varsFormulario, varsSolicitud,
                 isAnimationPlaying, currentAnimationFrame, currentFrame, animationSpeed>>

\* mutant: the run ends only when the next frame is beyond the length
AutoStopEstricto(nextFrame, longitud) == nextFrame > longitud * Scale

\* if (nextFrame >= resultados.posicion.length)
AutoStop(nextFrame, longitud) == nextFrame >= longitud * Scale

\* mutant: one frame per tick whatever the speed
NextFrameDeUnoEnUno(prevFrame, speed) == prevFrame + Scale

\* const nextFrame = prevFrame + animationSpeed
NextFrame(prevFrame, speed) == prevFrame + speed

\* mutant: the tick that ends the run takes the frame index back to the start
animateConRepeticion(c) ==
  /\ IF AutoStop(NextFrame(currentFrame, c.animationSpeed), c.longitud)
     THEN /\ isAnimationPlaying' = handleAnimationPlayPause(c.isPlaying)
          /\ currentFrame' = 0
          /\ UNCHANGED currentAnimationFrame
     ELSE /\ currentFrame' = NextFrame(currentFrame, c.animationSpeed)
          /\ currentAnimationFrame' = NextFrame(currentFrame, c.animationSpeed)
          /\ UNCHANGED isAnimationPlaying
  /\ UNCHANGED <<varsEcuaciones, reiniciado, montado, backendStatus, saludEnVuelo, varsFormulario, varsSolicitud,
                 animationSpeed, intervalos, deps>>

\* one call of animate by the interval whose closure is c: the updater of
\* setCurrentFrame, with the onPlayPause and onFrameUpdate it calls
animate(c) ==
  /\ IF AutoStop(NextFrame(currentFrame, c.animationSpeed), c.longitud)
     THEN /\ isAnimationPlaying' = handleAnimationPlayPause(c.isPlaying)
          /\ currentFrame' = (c.longitud - 1) * Scale
          /\ UNCHANGED currentAnimationFrame
     ELSE /\ currentFrame' = NextFrame(currentFrame, c.animationSpeed)
          /\ currentAnimationFrame' = NextFrame(currentFrame, c.animationSpeed)
          /\ UNCHANGED isAnimationPlaying
  /\ UNCHANGED <<varsEcuaciones, reiniciado, montado, backendStatus, saludEnVuelo, varsFormulario, varsSolicitud,
                 animationSpeed, intervalos, deps>>

\* a tick of one of the active intervals
tick == \E i \in DOMAIN intervalos : animate(intervalos[i])

\* the equations the remote renderer returns for p and cs
EcuacionesRemotas(p, cs) == generateEquations(p, cs)

\* getFallbackEquations: the differential equation alone
getFallbackEquations(p) ==
  [differential_eq |-> differential_eq(p),
   position_eq |-> <<"Conectar al backend para ver la solución completa">>]

\* SimulatorAPI.getEquations for the request of closure r: data.equations when the
\* response is ok, the fallback on every failure
getEquations(r, ok) ==
  IF ok THEN EcuacionesRemotas(r.parametros, r.controlSimulacion)
  ELSE getFallbackEquations(r.parametros)

\* updateEquations after its await: setEquations(newEquations)
updateEquationsTermina(r, ok) ==
  /\ r \in ecuacionesEnVuelo
  /\ ecuacionesEnVuelo' = ecuacionesEnVuelo \ {r}
  /\ equations' = getEquations(r, ok)
  /\ UNCHANGED <<montado, backendStatus, saludEnVuelo, varsFormulario, varsSolicitud,
                 varsAnimacion, reiniciado>>

\* one of the requests in flight is answered or fails, in any order
getEquationsResponde ==
  \E r \in ecuacionesEnVuelo : \E ok \in BOOLEAN : updateEquationsTermina(r, ok)

\* onChange of the input of stop_time, and the equations effect of the next render
setStopTimeApp ==
  /\ montado
  /\ \E v \in TiemposFinUI \ {controlSimulacion.stop_time} :
       controlSimulacion' = [controlSimulacion EXCEPT !.stop_time = v]
  /\ updateEquationsInicia(parametros, controlSimulacion')
  /\ UNCHANGED <<equations, reiniciado, montado, backendStatus, saludEnVuelo, parametros, escalaGrafico, ramas,
                 ediciones, varsSolicitud, varsAnimacion>>

\* onChange of the input of valor_inicial, and the equations effect of the next render
setValorInicialApp ==
  /\ montado
  /\ \E v \in ValoresInicialesUI \ {controlSimulacion.valor_inicial} :
       controlSimulacion' = [controlSimulacion EXCEPT !.valor_inicial = v]
  /\ updateEquationsInicia(parametros, controlSimulacion')
  /\ UNCHANGED <<equations, reiniciado, montado, backendStatus, saludEnVuelo, parametros,
                 escalaGrafico, ramas, ediciones, varsSolicitud, varsAnimacion>>

\* the form, the health checks and the simulate request with each of its outcomes;
\* the animation is not played
NextApp ==
  \/ efectoMontaje
  \/ clickReintentar
  \/ checkHealthResponde
  \/ setStopTimeApp
  \/ ejecutarSimulacionRemota
  \/ simulateFalla
  \/ simulateError
  \/ simulateOk
  \/ reiniciarSimulacionApp

SpecApp == InitApp /\ [][NextApp]_vars

\* the promise of SimulatorAPI.simulate settles: the server answers, or fetch rejects
simulateResponde == simulateFalla \/ simulateError \/ simulateOk

\* SpecApp with every awaited promise settling in the end: fetch resolves or
\* rejects, and the continuation of the await is then run by the event loop
SpecAppJusta ==
  /\ InitApp
  /\ [][NextApp]_vars
  /\ WF_vars(simulateResponde)
  /\ WF_vars(checkHealthResponde)

\* the edits of the form and the equations requests they start, answered in any order
NextEcuaciones ==
  \/ efectoMontaje
  \/ setStopTimeApp
  \/ setValorInicialApp
  \/ getEquationsResponde

SpecEcuaciones == InitApp /\ [][NextEcuaciones]_vars

\* playback over the trajectories stored by requests that the server answers
NextAnimacion ==
  \/ efectoMontaje
  \/ setStopTimeApp
  \/ ejecutarSimulacionRemota
  \/ simulateOk
  \/ reiniciarSimulacionApp
  \/ clickPlayPause
  \/ handleReset
  \/ setAnimationSpeed
  \/ efectoAnimacion
  \/ tick

SpecAnimacion == InitApp /\ [][NextAnimacion]_vars

----------------------------------------------------------------------------
(* Properties of App.js, checked under SpecApp *)

\* C14: when the simulate request fails for lack of connection, ejecutarSimulacion
\* falls back to the local generator and still stores a trajectory in resultados,
\* instead of ending with an error and no trajectory
C14_RespaldoLocal ==
  [][simulateFalla =>
       /\ resultados' = simulateSystem(pendiente.parametros, pendiente.controlSimulacion)
       /\ error' = ""]_vars

\* C15: a simulate request that fails for lack of connection sets backendStatus to
\* 'offline'; one that the server answers with an error response sets the error
\* message and does not set backendStatus to 'offline'
C15_OfflineSoloSinConexion ==
  [][/\ simulateFalla => backendStatus' = "offline"
     /\ simulateError => (error' # "" /\ backendStatus' = backendStatus)]_vars

\* the two halves of C15, each on its own
C15_SinConexionEsOffline == [][simulateFalla => backendStatus' = "offline"]_vars
C15_ErrorNoEsOffline ==
  [][simulateError => (error' # "" /\ backendStatus' = backendStatus)]_vars

\* a call of checkBackendHealth starts in this step
IniciaCheckHealth == saludEnVuelo' > saludEnVuelo

\* a simulate request is issued in this step
IniciaSimulate ==
  pendiente' # pendiente /\ pendiente' # Null /\ pendiente'.espera = "simulate"

\* C16: retry is explicit. While backendStatus is 'offline' the button 'Simular' is
\* disabled, no simulate request is issued, and a health check starts only by the
\* click of 'Reintentar'; the only health check that no click starts is the one of
\* the mount effect
C16_ReintentoExplicito ==
  [][/\ backendStatus = "offline" =>
          /\ SimularDeshabilitado
          /\ ~IniciaSimulate
          /\ IniciaCheckHealth => clickReintentar
     /\ IniciaCheckHealth => (clickReintentar \/ efectoMontaje)
     /\ montado => ~efectoMontaje]_vars

\* 'Reintentar' has been clicked after a request failed for lack of connection, while
\* the health check of the mount effect was still in flight
C16_Witness ==
  /\ backendStatus = "checking"
  /\ saludEnVuelo = 2
  /\ error = MensajeSinConexion
  /\ ~loading

----------------------------------------------------------------------------
(* Properties of the animation, checked under SpecAnimacion *)

\* the animation effect runs in this step for a trajectory that replaces another
EfectoTrasReemplazo ==
  /\ efectoAnimacion
  /\ deps # Null
  /\ deps.resultados # resultados

\* C17: whenever a new result replaces the trajectory that is displayed, the frame
\* index is reset to 0 and the interval timer is restarted: once the animation
\* effect has run for the new trajectory, currentFrame is 0 and the only interval,
\* if the animation is playing, is one set for the new trajectory
C17_ReinicioAlReemplazar ==
  [][EfectoTrasReemplazo =>
       /\ currentFrame' = 0
       /\ isAnimationPlaying =>
            /\ Len(intervalos') = 1
            /\ intervalos'[1].longitud = Len(resultados.posicion)]_vars

\* the second half of C17 on its own: the timer is restarted
C17_SoloTemporizador ==
  [][EfectoTrasReemplazo =>
       (isAnimationPlaying =>
          /\ Len(intervalos') = 1
          /\ intervalos'[1].longitud = Len(resultados.posicion))]_vars

\* C18: at most one interval of the animation effect is active at a time; once
\* isPlaying is false and the cleanup of the effect has run no interval is
\* active, so that no tick can advance the frame index while paused
C18_UnSoloIntervalo ==
  /\ Len(intervalos) <= 1
  /\ (~EfectoPendiente /\ (~isAnimationPlaying \/ resultados = Null)) =>
       /\ intervalos = <<>>
       /\ ~ENABLED tick

\* paused in the middle of a run at a speed that was changed, the cleanup done
C18_Witness ==
  /\ resultados # Null
  /\ ~isAnimationPlaying
  /\ ~EfectoPendiente
  /\ intervalos = <<>>
  /\ animationSpeed = Scale \div 2
  /\ currentFrame = Scale + Scale \div 2
  /\ currentAnimationFrame = currentFrame

\* the tick of the interval with closure c ends the run
TickFinal(c) ==
  animate(c) /\ currentFrame + c.animationSpeed >= c.longitud * Scale

\* C19: the first tick for which previous frame + speed >= N sets the frame index
\* to N - 1 and isPlaying to false, N being the length of the trajectory the
\* interval was set for, which is the one displayed once the effect has run; the
\* call of the toggle by that tick never sets isPlaying to true
C19_AutoStop ==
  [][\A i \in DOMAIN intervalos :
       TickFinal(intervalos[i]) =>
         /\ currentFrame' = (intervalos[i].longitud - 1) * Scale
         /\ isAnimationPlaying' = FALSE
         /\ ~EfectoPendiente => intervalos[i].longitud = Len(resultados.posicion)]_vars

\* a run at 0.25x over three samples has ended: the frame index went from 2.75 to 2,
\* and the cleanup of the effect has not run yet
C19_Witness ==
  /\ resultados # Null
  /\ Len(resultados.posicion) = 3
  /\ ~isAnimationPlaying
  /\ currentFrame = 2 * Scale
  /\ currentAnimationFrame = 2 * Scale + 3 * (Scale \div 4)
  /\ Len(intervalos) = 1
  /\ intervalos[1].animationSpeed = Scale \div 4

\* the tick of the interval with closure c does not end the run
TickIntermedio(c) ==
  animate(c) /\ currentFrame + c.animationSpeed < c.longitud * Scale

\* C20: every tick that does not end the run advances the frame index by exactly
\* the animationSpeed of its interval, one of 0.25, 0.5, 1, 2 and 4, which is the
\* speed selected once the effect has run; the period of the interval is the same
\* for every speed
C20_VelocidadPorTick ==
  [][\A i \in DOMAIN intervalos :
       TickIntermedio(intervalos[i]) =>
         /\ currentFrame' - currentFrame = intervalos[i].animationSpeed
         /\ intervalos[i].animationSpeed
              \in {Scale \div 4, Scale \div 2, Scale, 2 * Scale, 4 * Scale}
         /\ ~EfectoPendiente => intervalos[i].animationSpeed = animationSpeed
         /\ intervalos[i].periodo = 16]_vars

\* two ticks at 0.25x and one at 2x
C20_Witness ==
  /\ isAnimationPlaying
  /\ ~EfectoPendiente
  /\ Len(intervalos) = 1
  /\ animationSpeed = 2 * Scale
  /\ currentFrame = 2 * Scale + Scale \div 2
  /\ currentAnimationFrame = currentFrame

\* C22: a trajectory is discarded on reset: after the click of 'Reiniciar'
\* resultados stays null until a new simulation is started after that click,
\* also when a simulate request started before the click completes after it
C22_DescartadaAlReiniciar ==
  reiniciado => resultados = Null

\* what the click itself does: resultados becomes null, the request in flight
\* and loading are left as they are
C22_ReinicioNoCancela ==
  [][reiniciarSimulacionApp =>
       (resultados' = Null /\ UNCHANGED <<pendiente, loading>>)]_vars

\* the equations of the values the form holds now, from the server or the fallback
EcuacionesActuales ==
  {EcuacionesRemotas(parametros, controlSimulacion), getFallbackEquations(parametros)}

\* C28: once every pending getEquations request has completed, in any order,
\* equations holds the equations computed for the current parametros and
\* controlSimulacion, not those of an earlier edit
C28_EcuacionesActuales ==
  (montado /\ ecuacionesEnVuelo = {}) => equations \in EcuacionesActuales

\* the same statement when the request of the current values is the last to complete
C28_UltimaRespuestaActual ==
  [][\A r \in ecuacionesEnVuelo : \A ok \in BOOLEAN :
       ( /\ updateEquationsTermina(r, ok)
         /\ r = [parametros |-> parametros, controlSimulacion |-> controlSimulacion] ) =>
           equations' \in EcuacionesActuales]_vars

\* C29: loading is true exactly while a call of ejecutarSimulacion is in
\* progress; every call that starts sets loading back to false in the end, on
\* success and on every failure; a simulate request is issued only when none is
\* in flight, the button being disabled while loading is true
C29_Loading ==
  /\ [](loading <=> pendiente # Null)
  /\ [](loading => SimularDeshabilitado)
  /\ [][IniciaSimulate => (pendiente = Null /\ ~loading)]_vars
  /\ (loading ~> ~loading)

\* a second call is in progress after a first one stored its trajectory
C29_Witness ==
  /\ loading
  /\ EsperaSimulate
  /\ resultados # Null
  /\ error = ""
  /\ backendStatus = "online"

\* C25: in every state in which a trajectory of N samples is displayed the frame
\* index satisfies 0 <= currentFrame <= N - 1, across ticks, speed changes,
\* play/pause, reset and replacement of the trajectory by one of another length
C25_FrameEnRango ==
  resultados # Null =>
    /\ 0 <= currentFrame
    /\ currentFrame <= (Len(resultados.posicion) - 1) * Scale

\* the weaker statement about the sample index Math.floor(currentFrame) that
\* line 66 reads; it fails as well, once a shorter trajectory replaces the one
\* on display
C25_IndiceEnRango ==
  resultados # Null =>
    /\ 0 <= currentFrame
    /\ MathFloor(currentFrame) <= Len(resultados.posicion) - 1

\* what every tick does establish: the sample index Math.floor(currentFrame) is
\* within the trajectory its interval was set for
C25_TickEnRango ==
  [][\A i \in DOMAIN intervalos :
       animate(intervalos[i]) =>
         /\ 0 <= currentFrame'
         /\ MathFloor(currentFrame') <= intervalos[i].longitud - 1]_vars

\* C26: the chart's moving point follows the animation: after every tick, every
\* auto-stop and every click of the animation's Reiniciar button
\* currentAnimationFrame equals currentFrame, so it is 0 after the reset and
\* N - 1 after the auto-stop
C26_PuntoSigueAnimacion ==
  [][(tick \/ handleReset) => currentAnimationFrame' = currentFrame']_vars

\* the ticks that do not end the run do report their frame to the parent
C26_TickIntermedioInforma ==
  [][\A i \in DOMAIN intervalos :
       TickIntermedio(intervalos[i]) => currentAnimationFrame' = currentFrame']_vars

\* the frame index is at or beyond the last sample of the trajectory the
\* interval with closure c was set for
EnUltimaMuestra(c) == currentFrame >= (c.longitud - 1) * Scale

\* C27 as stated: with the frame index at the last sample N - 1 the next tick
\* of a new playback leaves it at N - 1 and sets isPlaying to false, and the
\* frame index decreases only through the animation's Reiniciar button or a
\* remount of the component
C27_SinRepeticion ==
  [][/\ \A i \in DOMAIN intervalos :
          (animate(intervalos[i]) /\ currentFrame = (intervalos[i].longitud - 1) * Scale) =>
            (currentFrame' = currentFrame /\ ~isAnimationPlaying')
     /\ (currentFrame' < currentFrame) => (handleReset \/ reiniciarSimulacionApp)]_vars

\* C27: once the frame index is at the last sample N - 1, playing again does not
\* replay the trajectory: the sample index Math.floor(currentFrame) stays N - 1
\* after every tick; at a speed of 1 or more the next tick leaves the frame
\* index at N - 1 and sets isPlaying to false, at a speed below 1 the ticks
\* advance it beyond N - 1 until the one that ends the run; the frame index
\* decreases only through the animation's Reiniciar button, a remount of the
\* component, or the tick that ends a run
C27_SinRepeticionDelIndice ==
  [][/\ \A i \in DOMAIN intervalos :
          (animate(intervalos[i]) /\ EnUltimaMuestra(intervalos[i])) =>
            /\ MathFloor(currentFrame') = intervalos[i].longitud - 1
            /\ (intervalos[i].animationSpeed >= Scale) =>
                 /\ currentFrame' = (intervalos[i].longitud - 1) * Scale
                 /\ ~isAnimationPlaying'
            /\ ( /\ intervalos[i].animationSpeed < Scale
                 /\ currentFrame = (intervalos[i].longitud - 1) * Scale ) =>
                 /\ currentFrame' = currentFrame + intervalos[i].animationSpeed
                 /\ UNCHANGED isAnimationPlaying
     /\ (currentFrame' < currentFrame) =>
          \/ handleReset
          \/ reiniciarSimulacionApp
          \/ \E i \in DOMAIN intervalos : TickFinal(intervalos[i])]_vars

\* a run over three samples has ended at frame 2 and is played again at 0.25x:
\* its first tick has moved the frame index to 2.25
C27_Witness ==
  /\ resultados # Null
  /\ Len(resultados.posicion) = 3
  /\ isAnimationPlaying
  /\ ~EfectoPendiente
  /\ Len(intervalos) = 1
  /\ intervalos[1].animationSpeed = Scale \div 4
  /\ currentFrame = 2 * Scale + Scale \div 4
  /\ currentAnimationFrame = currentFrame

====
